---- MODULE Spec2Model ----
(***************************************************************************)
(* Model of dockeraizer.py: the response segmenter (extract_docker_files), *)
(* the directory scanner (generate_directory_markdown), the config         *)
(* collector (read_important_files) and the streaming consumer             *)
(* (stream_response) with the session state it appends to.                 *)
(*                                                                         *)
(* Text is modelled as a sequence of one-character strings, so that split, *)
(* strip, lower, startswith and replace are computed character by          *)
(* character, as Python computes them.                                     *)
(***************************************************************************)
EXTENDS Integers, Sequences, FiniteSets, TLC

VARIABLES
    \* extract_docker_files
    response, xpc, dockerfile, docker_compose, summary,
    \* generate_directory_markdown
    tree, gpc, markdown, scan_raised,
    \* read_important_files
    rootdir, cpc, found_files,
    \* stream_response and st.session_state
    docker_files, message_count, pc, full_response, yielded,
    calls, nparts, outcome, start_files, start_count

xvars == <<response, xpc, dockerfile, docker_compose, summary>>
gvars == <<tree, gpc, markdown, scan_raised>>
cvars == <<rootdir, cpc, found_files>>
svars == <<docker_files, message_count, pc, full_response, yielded,
           calls, nparts, outcome, start_files, start_count>>
vars == <<xvars, gvars, cvars, svars>>

----------------------------------------------------------------------------
(* Bounds *)

MaxPieces == 4      \* pieces concatenated into a free-form reply
MaxEntries == 2     \* entries directly under the scanned root
MaxSubEntries == 1  \* entries in a subdirectory of the scanned root
MaxRootEntries == 3 \* entries directly under the collector's root
MaxCalls == 3       \* streaming calls per session
MaxParts == 2       \* parts delivered by one completion stream

----------------------------------------------------------------------------
(* The parts of the state a specification does not exercise stay at rest *)

ExtractIdle ==
    /\ response = <<>> /\ xpc = "idle"
    /\ dockerfile = <<>> /\ docker_compose = <<>> /\ summary = <<>>
NoTree == [name |-> <<>>, is_dir |-> TRUE, denied |-> FALSE, children |-> <<>>]
ScanIdle ==
    /\ tree = NoTree /\ gpc = "idle" /\ markdown = <<>> /\ scan_raised = FALSE
CollectIdle ==
    /\ rootdir = <<>> /\ cpc = "idle" /\ found_files = <<>>
StreamIdle ==
    /\ docker_files = <<>> /\ message_count = 0 /\ pc = "off"
    /\ full_response = <<>> /\ yielded = <<>> /\ calls = 0 /\ nparts = 0
    /\ outcome = "none" /\ start_files = <<>> /\ start_count = 0

----------------------------------------------------------------------------
(* Python str primitives on character sequences *)

UpperChars == <<"A","B","C","D","E","F","G","H","I","J","K","L","M",
                "N","O","P","Q","R","S","T","U","V","W","X","Y","Z">>
LowerChars == <<"a","b","c","d","e","f","g","h","i","j","k","l","m",
                "n","o","p","q","r","s","t","u","v","w","x","y","z">>

Whitespace == {" ", "\n", "\t", "\r"}

LowerChar(c) ==
    IF \E i \in 1..26 : UpperChars[i] = c
    THEN LowerChars[CHOOSE i \in 1..26 : UpperChars[i] = c]
    ELSE c

RECURSIVE Lower(_)
Lower(s) == IF s = <<>> THEN <<>> ELSE <<LowerChar(Head(s))>> \o Lower(Tail(s))

RECURSIVE LStrip(_)
LStrip(s) ==
    IF s # <<>> /\ Head(s) \in Whitespace THEN LStrip(Tail(s)) ELSE s

RECURSIVE RStrip(_)
RStrip(s) ==
    IF s # <<>> /\ s[Len(s)] \in Whitespace
    THEN RStrip(SubSeq(s, 1, Len(s) - 1)) ELSE s

Strip(s) == RStrip(LStrip(s))

StartsWith(s, p) == Len(s) >= Len(p) /\ SubSeq(s, 1, Len(p)) = p

\* index of the first occurrence of sub in s, 0 when there is none
Find(s, sub) ==
    LET hits == {j \in 1..(Len(s) - Len(sub) + 1) :
                    SubSeq(s, j, j + Len(sub) - 1) = sub}
    IN IF hits = {} THEN 0 ELSE CHOOSE j \in hits : \A k \in hits : j <= k

\* s.split(sep): left to right, non-overlapping, always at least one part
RECURSIVE Split(_, _)
Split(s, sep) ==
    LET j == Find(s, sep)
    IN IF j = 0 THEN <<s>>
       ELSE <<SubSeq(s, 1, j - 1)>> \o Split(SubSeq(s, j + Len(sep), Len(s)), sep)

\* s.replace(old, ""): every non-overlapping occurrence, left to right
RECURSIVE Remove(_, _)
Remove(s, old) ==
    LET j == Find(s, old)
    IN IF j = 0 THEN s
       ELSE SubSeq(s, 1, j - 1) \o Remove(SubSeq(s, j + Len(old), Len(s)), old)

----------------------------------------------------------------------------
(* extract_docker_files *)

\* the backtick character (the lexer does not accept it inside a string)
BT == "BACKTICK"
FENCE == <<BT, BT, BT>>
DOCKERFILE == <<"d","o","c","k","e","r","f","i","l","e">>
YAML == <<"y","a","m","l">>
DOCKER_COMPOSE == <<"d","o","c","k","e","r","-","c","o","m","p","o","s","e">>
DOCKER_COMPOSE_YML == DOCKER_COMPOSE \o <<".","y","m","l">>

\* variant: a summary is taken only when a fence split the reply
HasSummaryNeedsFence(blocks) ==
    Len(blocks) > 1 /\ ~StartsWith(Lower(Strip(blocks[1])), DOCKERFILE)

\* line 100: the first segment is the summary unless it starts with the label
HasSummary(blocks) ==
    blocks # <<>> /\ ~StartsWith(Lower(Strip(blocks[1])), DOCKERFILE)

\* line 101
SummaryOf(blocks) == IF HasSummary(blocks) THEN Strip(blocks[1]) ELSE <<>>

\* lines 102-104
NonBlank(block) == Strip(block) # <<>>
WorkingBlocks(blocks) ==
    SelectSeq(IF HasSummary(blocks) THEN Tail(blocks) ELSE blocks, NonBlank)

\* line 107
IsDockerfileBlock(block) == StartsWith(Lower(Strip(block)), DOCKERFILE)

\* line 109
IsComposeBlock(block) ==
    /\ ~IsDockerfileBlock(block)
    /\ \/ StartsWith(Lower(Strip(block)), YAML)
       \/ StartsWith(Lower(Strip(block)), DOCKER_COMPOSE)

\* line 108
CleanDockerfile(block) == Strip(Remove(block, DOCKERFILE))

\* variant: the "yaml" label is left in place
CleanComposeKeepsYaml(block) == Strip(Remove(block, DOCKER_COMPOSE_YML))

\* line 111
CleanCompose(block) == Strip(Remove(Remove(block, DOCKER_COMPOSE_YML), YAML))

\* variant: the first labelled block wins (a block never overwrites a value)
RECURSIVE BlockLoopFirstWins(_, _, _, _)
BlockLoopFirstWins(blocks, acc, haveDockerfile, haveCompose) ==
    IF blocks = <<>> THEN acc
    ELSE LET block == Head(blocks)
         IN IF IsDockerfileBlock(block)
            THEN BlockLoopFirstWins(Tail(blocks),
                    IF haveDockerfile THEN acc
                    ELSE [acc EXCEPT !.dockerfile = CleanDockerfile(block)],
                    TRUE, haveCompose)
            ELSE IF IsComposeBlock(block)
            THEN BlockLoopFirstWins(Tail(blocks),
                    IF haveCompose THEN acc
                    ELSE [acc EXCEPT !.docker_compose = CleanCompose(block)],
                    haveDockerfile, TRUE)
            ELSE BlockLoopFirstWins(Tail(blocks), acc, haveDockerfile, haveCompose)

BlockLoopMutant(blocks, acc) == BlockLoopFirstWins(blocks, acc, FALSE, FALSE)

\* lines 106-112: one pass over the blocks, later assignments overwrite
RECURSIVE BlockLoop(_, _)
BlockLoop(blocks, acc) ==
    IF blocks = <<>> THEN acc
    ELSE LET block == Head(blocks)
             next == IF IsDockerfileBlock(block)
                     THEN [acc EXCEPT !.dockerfile = CleanDockerfile(block)]
                     ELSE IF IsComposeBlock(block)
                     THEN [acc EXCEPT !.docker_compose = CleanCompose(block)]
                     ELSE acc
         IN BlockLoop(Tail(blocks), next)

extract_docker_files(text) ==
    LET blocks == Split(text, FENCE)
        found == BlockLoop(WorkingBlocks(blocks),
                           [dockerfile |-> <<>>, docker_compose |-> <<>>])
    IN [dockerfile |-> found.dockerfile,
        docker_compose |-> found.docker_compose,
        summary |-> SummaryOf(blocks)]

----------------------------------------------------------------------------
(* generate_directory_markdown *)

\* code-point order of the characters that occur in entry names
Ascii == <<".">> \o UpperChars \o LowerChars
Ord(c) == CHOOSE i \in 1..Len(Ascii) : Ascii[i] = c

\* Python's  a < b  and  a <= b  on str
RECURSIVE StrLess(_, _)
StrLess(a, b) ==
    IF b = <<>> THEN FALSE
    ELSE IF a = <<>> THEN TRUE
    ELSE IF Head(a) = Head(b) THEN StrLess(Tail(a), Tail(b))
    ELSE Ord(Head(a)) < Ord(Head(b))

\* line 64: key = (not is_dir, name.lower()), compared as a tuple
KeyLess(x, y) ==
    \/ x.is_dir /\ ~y.is_dir
    \/ x.is_dir = y.is_dir /\ StrLess(Lower(x.name), Lower(y.name))

\* line 64: sorted() is stable; insertion after every item that is not greater
RECURSIVE InsertSorted(_, _)
InsertSorted(sorted, x) ==
    IF sorted = <<>> THEN <<x>>
    ELSE IF KeyLess(x, Head(sorted)) THEN <<x>> \o sorted
    ELSE <<Head(sorted)>> \o InsertSorted(Tail(sorted), x)

RECURSIVE SortItems(_)
SortItems(items) ==
    IF items = <<>> THEN <<>>
    ELSE InsertSorted(SortItems(SubSeq(items, 1, Len(items) - 1)),
                      items[Len(items)])

\* line 63
Hidden(item) == StartsWith(item.name, <<".">>)
NotHidden(item) == ~Hidden(item)
VisibleItems(dir) == SelectSeq(dir.children, NotHidden)

\* Path.suffix: from the last dot, unless that dot leads or ends the name
Suffix(name) ==
    LET dots == {i \in 1..Len(name) : name[i] = "."}
        last == CHOOSE i \in dots : \A k \in dots : k <= i
    IN IF dots = {} THEN <<>>
       ELSE IF last = 1 \/ last = Len(name) THEN <<>>
       ELSE SubSeq(name, last, Len(name))

CodeExt == { <<".","p","y">>, <<".","j","a","v","a">>, <<".","c","p","p">>,
             <<".","j","s">> }
ImageExt == { <<".","j","p","g">>, <<".","p","n","g">>, <<".","g","i","f">>,
              <<".","b","m","p">> }
DocExt == { <<".","p","d","f">>, <<".","d","o","c">>, <<".","d","o","c","x">>,
            <<".","t","x","t">> }

\* lines 72-80
FileMarker(name) ==
    LET extension == Lower(Suffix(name))
    IN IF extension \in CodeExt THEN "code"
       ELSE IF extension \in ImageExt THEN "image"
       ELSE IF extension \in DocExt THEN "doc"
       ELSE "other"

\* one line of the produced markdown: indent level, marker, entry name
DirLine(level, item) ==
    [indent |-> level, marker |-> "dir", name |-> item.name, detail |-> ""]
FileLine(level, item) ==
    [indent |-> level, marker |-> FileMarker(item.name), name |-> item.name,
     detail |-> ""]
\* line 86, reached with str(e) of the UnboundLocalError raised at line 84
ErrorLine(level) ==
    [indent |-> level, marker |-> "error", name |-> <<>>,
     detail |-> "UnboundLocalError: indent"]

(* lines 57-88.  Listing a directory that denies access raises               *)
(* PermissionError at line 63, before the loop has assigned indent; the      *)
(* handler at line 84 reads indent and so raises UnboundLocalError, which    *)
(* leaves the call.  In the caller the exception arrives inside the loop,    *)
(* where indent is assigned: line 85 catches it, line 86 appends an error    *)
(* line, and the rest of the caller's loop is skipped.                       *)
RECURSIVE ScanDir(_, _)
RECURSIVE ScanItems(_, _, _)
ScanDir(dir, level) ==
    IF dir.denied
    THEN [raised |-> TRUE, out |-> <<>>]
    ELSE [raised |-> FALSE,
          out |-> ScanItems(SortItems(VisibleItems(dir)), level, <<>>)]
ScanItems(items, level, md) ==
    IF items = <<>> THEN md
    ELSE LET item == Head(items)
         IN IF item.is_dir
            THEN LET sub == ScanDir(item, level + 1)
                 IN IF sub.raised
                    THEN md \o <<DirLine(level, item), ErrorLine(level)>>
                    ELSE ScanItems(Tail(items), level,
                                   md \o <<DirLine(level, item)>> \o sub.out)
            ELSE ScanItems(Tail(items), level, md \o <<FileLine(level, item)>>)

generate_directory_markdown(root) == ScanDir(root, 0)

----------------------------------------------------------------------------
(* Directory trees handed to the scanner *)

EntryNames == { <<"a">>, <<"B",".","p","y">>, <<".","h">> }

File(n) == [name |-> n, is_dir |-> FALSE, denied |-> FALSE, children |-> <<>>]
Dir(n, items) ==
    [name |-> n, is_dir |-> TRUE, denied |-> FALSE, children |-> items]
DeniedDir(n) ==
    [name |-> n, is_dir |-> TRUE, denied |-> TRUE, children |-> <<>>]

\* listings of at most max entries with pairwise different names, in any
\* order (the order is the one iterdir() happens to deliver)
Listings(nodes, max) ==
    { items \in UNION { [1..n -> nodes] : n \in 0..max } :
        \A i, j \in 1..Len(items) : i # j => items[i].name # items[j].name }

Leaves ==
    { File(n) : n \in EntryNames } \cup { DeniedDir(n) : n \in EntryNames }
      \cup { Dir(n, <<>>) : n \in EntryNames }
SubTrees ==
    { File(n) : n \in EntryNames } \cup { DeniedDir(n) : n \in EntryNames }
      \cup { Dir(n, items) : n \in EntryNames,
                              items \in Listings(Leaves, MaxSubEntries) }
Roots ==
    { Dir(<<>>, items) : items \in Listings(SubTrees, MaxEntries) }
      \cup { DeniedDir(<<>>) }

InitScan ==
    /\ tree \in Roots
    /\ gpc = "call" /\ markdown = <<>> /\ scan_raised = FALSE
    /\ ExtractIdle /\ CollectIdle /\ StreamIdle

\* lines 57-88: one top-level call generate_directory_markdown(directory_path)
Scan ==
    /\ gpc = "call"
    /\ LET r == generate_directory_markdown(tree)
       IN markdown' = r.out /\ scan_raised' = r.raised
    /\ gpc' = "done"
    /\ UNCHANGED <<tree, xvars, cvars, svars>>

NextScan == Scan
SpecScan == InitScan /\ [][NextScan]_vars

----------------------------------------------------------------------------
(* Properties of generate_directory_markdown *)

Scanned == gpc = "done"

\* the directories of the tree whose listing fails, and whether any exists
RECURSIVE HasDenied(_)
HasDenied(node) ==
    node.is_dir /\ (node.denied \/ \E i \in 1..Len(node.children) :
                                       HasDenied(node.children[i]))

\* every entry the scan can see: not hidden, below readable directories only
RECURSIVE SeenEntries(_, _)
SeenEntries(dir, level) ==
    IF dir.denied THEN {}
    ELSE UNION { {[indent |-> level, name |-> dir.children[i].name,
                   is_dir |-> dir.children[i].is_dir]}
                 \cup (IF dir.children[i].is_dir
                       THEN SeenEntries(dir.children[i], level + 1) ELSE {})
                 : i \in {k \in 1..Len(dir.children) : ~Hidden(dir.children[k])} }

RECURSIVE DeniedCount(_)
RECURSIVE DeniedCountIn(_)
DeniedCount(node) ==
    IF ~node.is_dir \/ Hidden(node) THEN 0
    ELSE IF node.denied THEN 1 ELSE DeniedCountIn(node.children)
DeniedCountIn(items) ==
    IF items = <<>> THEN 0
    ELSE DeniedCount(Head(items)) + DeniedCountIn(Tail(items))

Shown(e) ==
    \E i \in 1..Len(markdown) :
        /\ markdown[i].indent = e.indent /\ markdown[i].name = e.name
        /\ (markdown[i].marker = "dir") = e.is_dir
        /\ markdown[i].marker \notin {"denied", "error"}

\* C4: when listing some directory of the tree fails with a permission
\* error the scan does not raise, renders one access-denied line per failing
\* directory, and still renders every other entry of the tree.
C4_DeniedIsLocal ==
    (Scanned /\ HasDenied(tree)) =>
        /\ ~scan_raised
        /\ \A e \in SeenEntries(tree, 0) : Shown(e)
        /\ Cardinality({i \in 1..Len(markdown) : markdown[i].marker = "denied"})
             = (IF tree.denied THEN 1 ELSE DeniedCountIn(tree.children))
        /\ \A i \in 1..Len(markdown) : markdown[i].marker # "error"

\* md is a listing of dir at the given level: its lines at that level are
\* exactly the non-hidden entries, directories before files, each group in
\* case-insensitive ascending order, and the lines between one entry and the
\* next are the listing of that entry one level deeper (none for a file)
RECURSIVE Lists(_, _, _)
Lists(md, dir, level) ==
    LET heads == {i \in 1..Len(md) : md[i].indent = level}
        shown == {k \in 1..Len(dir.children) : ~Hidden(dir.children[k])}
        stop(i) == IF \E j \in heads : j > i
                   THEN (CHOOSE j \in heads : j > i /\ \A k \in heads : k > i => j <= k)
                   ELSE Len(md) + 1
    IN /\ \A i \in 1..Len(md) : md[i].indent >= level
       /\ md # <<>> => 1 \in heads
       /\ Cardinality(heads) = Cardinality(shown)
       /\ \A i, j \in heads : i # j => md[i].name # md[j].name
       /\ \A i, j \in heads : i < j =>
            /\ ~(md[i].marker # "dir" /\ md[j].marker = "dir")
            /\ (md[i].marker = "dir") = (md[j].marker = "dir") =>
                 ~StrLess(Lower(md[j].name), Lower(md[i].name))
       /\ \A i \in heads :
            \E k \in shown :
               /\ dir.children[k].name = md[i].name
               /\ dir.children[k].is_dir = (md[i].marker = "dir")
               /\ IF dir.children[k].is_dir
                  THEN Lists(SubSeq(md, i + 1, stop(i) - 1),
                             dir.children[k], level + 1)
                  ELSE stop(i) = i + 1

IsEntryLine(line) == line.marker \notin {"denied", "error"}
EntryLines == SelectSeq(markdown, IsEntryLine)

\* C7: for every directory tree the output lists, at each nesting level,
\* exactly the entries that are not hidden, directories before files,
\* case-insensitively ascending, a directory's contents right below its line
\* (marker lines for failed listings are left out of the comparison, and a
\* directory whose listing fails has no entries to list).
C7_SortedListing ==
    Scanned => Lists(EntryLines, tree, 0)

\* the same listing property on the trees in which no listing fails
ListingWhenReadable ==
    (Scanned /\ ~HasDenied(tree)) => (~scan_raised /\ Lists(markdown, tree, 0))

----------------------------------------------------------------------------
(* read_important_files *)

\* lines 17-40
important_files ==
    << "requirements.txt", "setup.py", "pyproject.toml", "Pipfile",
       "package.json", "package-lock.json", "pom.xml", "build.gradle",
       "go.mod", "Cargo.toml", "Dockerfile", "docker-compose.yml",
       "config.json", "config.yaml", "config.yml" >>

\* variant: anything that exists under the name is taken, file or not
IsFileOrDir(dir, filename) ==
    \E i \in 1..Len(dir) : dir[i].name = filename

\* line 47: (path / filename).is_file(), a lookup among the direct children
IsFile(dir, filename) ==
    \E i \in 1..Len(dir) : dir[i].name = filename /\ dir[i].kind = "file"

EntryOf(dir, filename) ==
    dir[CHOOSE i \in 1..Len(dir) : dir[i].name = filename]

\* lines 48-52: the text of the file, or the placeholder when reading fails
ReadEntry(dir, filename) ==
    IF EntryOf(dir, filename).readable
    THEN [filename |-> filename, content |-> EntryOf(dir, filename).content]
    ELSE [filename |-> filename, content |-> "Error reading file"]

\* lines 45-52: the dict is filled in the order of the manifest list
RECURSIVE ReadLoop(_, _, _)
ReadLoop(names, dir, found) ==
    IF names = <<>> THEN found
    ELSE ReadLoop(Tail(names), dir,
                  IF IsFile(dir, Head(names))
                  THEN Append(found, ReadEntry(dir, Head(names)))
                  ELSE found)

read_important_files(dir) == ReadLoop(important_files, dir, <<>>)

----------------------------------------------------------------------------
(* Root directories handed to the collector *)

RootNames == {"Cargo.toml", "package.json", "requirements.txt", "README.md"}

\* a direct child: a readable or unreadable file, or a directory that may
\* itself hold files (inner: the names of the files inside it)
RootEntries ==
    { [name |-> n, kind |-> "file", readable |-> r, content |-> c, inner |-> {}]
        : n \in RootNames, r \in BOOLEAN, c \in {"text"} }
    \cup
    { [name |-> n, kind |-> "dir", readable |-> TRUE, content |-> "", inner |-> f]
        : n \in RootNames, f \in {{}, {"package.json"}} }

RootDirs ==
    { d \in UNION { [1..n -> RootEntries] : n \in 0..MaxRootEntries } :
        \A i, j \in 1..Len(d) : i # j => d[i].name # d[j].name }

InitCollect ==
    /\ rootdir \in RootDirs
    /\ cpc = "call" /\ found_files = <<>>
    /\ ExtractIdle /\ ScanIdle /\ StreamIdle

\* lines 7-54: one call read_important_files(directory_path)
Collect ==
    /\ cpc = "call"
    /\ found_files' = read_important_files(rootdir)
    /\ cpc' = "done"
    /\ UNCHANGED <<rootdir, xvars, gvars, svars>>

NextCollect == Collect
SpecCollect == InitCollect /\ [][NextCollect]_vars

----------------------------------------------------------------------------
(* Properties of read_important_files *)

Collected == cpc = "done"

ManifestIndex(n) == CHOOSE i \in 1..Len(important_files) : important_files[i] = n

FilesUnderRoot ==
    { rootdir[i].name : i \in {k \in 1..Len(rootdir) : rootdir[k].kind = "file"} }

\* C8: the returned names are exactly the manifest names that exist as files
\* directly under the root, in the order of the manifest list.
C8_ManifestOrder ==
    Collected =>
        /\ { found_files[i].filename : i \in 1..Len(found_files) }
             = { n \in FilesUnderRoot : \E i \in 1..Len(important_files) :
                                            important_files[i] = n }
        /\ \A i, j \in 1..Len(found_files) :
              i < j => ManifestIndex(found_files[i].filename)
                         < ManifestIndex(found_files[j].filename)

\* two manifest files listed by the filesystem against the manifest order,
\* next to a directory that holds a manifest-named file and has itself a
\* manifest name
C8_Witness ==
    /\ Collected
    /\ Len(found_files) = 2
    /\ \E i, j \in 1..Len(rootdir) :
          /\ i < j
          /\ rootdir[i].kind = "file" /\ rootdir[j].kind = "file"
          /\ rootdir[i].name = "Cargo.toml" /\ rootdir[j].name = "package.json"
    /\ \E k \in 1..Len(rootdir) :
          /\ rootdir[k].kind = "dir" /\ rootdir[k].name = "requirements.txt"
          /\ rootdir[k].inner = {"package.json"}
    /\ found_files[1].filename = "package.json"

----------------------------------------------------------------------------
(* Replies fed to extract_docker_files *)

RECURSIVE Concat(_)
Concat(ss) == IF ss = <<>> THEN <<>> ELSE Head(ss) \o Concat(Tail(ss))

Pieces ==
    { FENCE, DOCKERFILE, <<"D">> \o Tail(DOCKERFILE), YAML, DOCKER_COMPOSE_YML,
      <<"\n">>, <<"A">>, <<"b">> }

FreeReplies ==
    { Concat(ps) : ps \in UNION { [1..n -> Pieces] : n \in 0..MaxPieces } }

\* candidate summary / Dockerfile / compose bodies and inter-block whitespace
Texts ==
    { <<>>, <<"A">>, <<" ","b","\n">>, <<"A"," ">> \o YAML,
      <<"D">> \o Tail(DOCKERFILE), DOCKERFILE \o <<" ","b">> }
Gaps == { <<>>, <<"\n">>, <<" ","\n">> }

\* S + fence + "dockerfile\n" + D + fence + W + fence + "yaml\n" + C + fence
Reply(S, D, C, W) ==
    S \o FENCE \o DOCKERFILE \o <<"\n">> \o D \o FENCE \o W
      \o FENCE \o YAML \o <<"\n">> \o C \o FENCE

ShapedReplies ==
    { Reply(S, D, C, W) : S \in Texts, D \in Texts, C \in Texts, W \in Gaps }

InitExtract ==
    /\ response \in FreeReplies \cup ShapedReplies
    /\ xpc = "call"
    /\ dockerfile = <<>> /\ docker_compose = <<>> /\ summary = <<>>
    /\ ScanIdle /\ CollectIdle /\ StreamIdle

\* lines 91-114: one call of extract_docker_files(response)
Extract ==
    /\ xpc = "call"
    /\ LET r == extract_docker_files(response)
       IN /\ dockerfile' = r.dockerfile
          /\ docker_compose' = r.docker_compose
          /\ summary' = r.summary
    /\ xpc' = "done"
    /\ UNCHANGED <<response, gvars, cvars, svars>>

NextExtract == Extract
SpecExtract == InitExtract /\ [][NextExtract]_vars

----------------------------------------------------------------------------
(* Properties of extract_docker_files *)

Done == xpc = "done"

ContainsLabel(s) ==
    \/ Find(s, DOCKERFILE) # 0 \/ Find(s, YAML) # 0
    \/ Find(s, DOCKER_COMPOSE_YML) # 0

Plain(s) == Find(s, FENCE) = 0 /\ ~ContainsLabel(s)

ShapedAs(S, D, C, W) ==
    /\ response = Reply(S, D, C, W)
    /\ Plain(S) /\ Plain(D) /\ Plain(C)
    /\ ~StartsWith(Lower(Strip(S)), DOCKERFILE)

NoFence == Find(response, FENCE) = 0

\* C2 as stated: a reply without a fence marker yields three empty strings.
C2_Original ==
    (Done /\ NoFence) =>
        dockerfile = <<>> /\ docker_compose = <<>> /\ summary = <<>>

\* C2 amended: a reply without a fence marker yields an empty compose;
\* unless its trimmed, lowercased text starts with "dockerfile" it yields an
\* empty dockerfile and the trimmed text as summary, otherwise an empty
\* summary and, as dockerfile, the text with every "dockerfile" removed,
\* trimmed. The empty string yields three empty strings.
C2_NoFence ==
    (Done /\ NoFence) =>
        /\ docker_compose = <<>>
        /\ IF StartsWith(Lower(Strip(response)), DOCKERFILE)
           THEN /\ summary = <<>>
                /\ dockerfile = Strip(Remove(response, DOCKERFILE))
           ELSE /\ summary = Strip(response)
                /\ dockerfile = <<>>
        /\ (response = <<>> =>
                dockerfile = <<>> /\ docker_compose = <<>> /\ summary = <<>>)

C2_Witness ==
    /\ Done /\ NoFence
    /\ Strip(response) # <<>> /\ response # Strip(response)
    /\ summary = Strip(response) /\ dockerfile = <<>>

\* the blocks the loop of lines 106-112 iterates over, in reply order
LoopBlocks == WorkingBlocks(Split(response, FENCE))

DockerfileIdx == { i \in 1..Len(LoopBlocks) : IsDockerfileBlock(LoopBlocks[i]) }
ComposeIdx == { i \in 1..Len(LoopBlocks) : IsComposeBlock(LoopBlocks[i]) }

Last(idx) == CHOOSE i \in idx : \A k \in idx : k <= i
First(idx) == CHOOSE i \in idx : \A k \in idx : i <= k

\* C3: with two or more Dockerfile-labelled blocks the returned dockerfile is
\* what the last of them in reply order yields, and likewise for two or more
\* compose-labelled blocks.
C3_LastWins ==
    Done =>
        /\ Cardinality(DockerfileIdx) >= 2 =>
              dockerfile = CleanDockerfile(LoopBlocks[Last(DockerfileIdx)])
        /\ Cardinality(ComposeIdx) >= 2 =>
              docker_compose = CleanCompose(LoopBlocks[Last(ComposeIdx)])

C3_Witness ==
    /\ Done
    /\ Cardinality(DockerfileIdx) >= 2
    /\ CleanDockerfile(LoopBlocks[First(DockerfileIdx)])
          # CleanDockerfile(LoopBlocks[Last(DockerfileIdx)])
    /\ dockerfile = CleanDockerfile(LoopBlocks[Last(DockerfileIdx)])

\* s with only its first occurrence of old removed
RemoveFirst(s, old) ==
    LET j == Find(s, old)
    IN IF j = 0 THEN s
       ELSE SubSeq(s, 1, j - 1) \o SubSeq(s, j + Len(old), Len(s))

\* s with the label removed only where it leads the text
RemoveLeading(s, label) ==
    IF StartsWith(LStrip(s), label)
    THEN SubSeq(LStrip(s), Len(label) + 1, Len(LStrip(s)))
    ELSE s

\* C9: the Dockerfile block loses only its leading "dockerfile" token and the
\* compose block only the first "docker-compose.yml" and the first "yaml";
\* later occurrences of the tokens in the body are kept.
C9_OnlyLabelRemoved ==
    Done =>
        /\ DockerfileIdx # {} =>
              dockerfile =
                Strip(RemoveLeading(LoopBlocks[Last(DockerfileIdx)], DOCKERFILE))
        /\ ComposeIdx # {} =>
              docker_compose =
                Strip(RemoveFirst(RemoveFirst(LoopBlocks[Last(ComposeIdx)],
                                              DOCKER_COMPOSE_YML), YAML))

----------------------------------------------------------------------------
(* stream_response and the session state of main *)

\* "Error during streaming: "
ErrorPrefix ==
    <<"E","r","r","o","r"," ","d","u","r","i","n","g"," ",
      "s","t","r","e","a","m","i","n","g",":"," ">>

\* str(e) of the exceptions the completion call raises
Errors == { <<"t","i","m","e","o","u","t">>, <<>> }

\* part.choices[0].delta.content of the parts of a stream: None, "" or text
NonePart == [none |-> TRUE, content |-> <<>>]
TextPart(c) == [none |-> FALSE, content |-> c]
Parts ==
    { NonePart, TextPart(<<>>), TextPart(<<"A"," ">>),
      TextPart(FENCE \o DOCKERFILE \o <<"\n","b">> \o FENCE) }

\* line 159: if chunk
Truthy(part) == ~part.none /\ part.content # <<>>

Fragment(c) == [error |-> FALSE, text |-> c]
\* line 180
ErrorFragment(e) == [error |-> TRUE, text |-> ErrorPrefix \o e]

\* the directories a session is run on: one that can be listed, one that
\* cannot
StreamTrees ==
    { Dir(<<>>, <<File(<<"a">>)>>), DeniedDir(<<>>) }

\* lines 190-196: the session state main() sets up before anything else
InitStream ==
    /\ docker_files = <<>> /\ message_count = 0
    /\ pc = "idle" /\ full_response = <<>> /\ yielded = <<>>
    /\ calls = 0 /\ nparts = 0 /\ outcome = "none"
    /\ start_files = <<>> /\ start_count = 0
    /\ tree \in StreamTrees
    /\ gpc = "idle" /\ markdown = <<>> /\ scan_raised = FALSE
    /\ ExtractIdle /\ CollectIdle

Begin ==
    /\ pc = "idle" /\ calls < MaxCalls
    /\ calls' = calls + 1
    /\ start_files' = docker_files /\ start_count' = message_count
    /\ nparts' = 0 /\ full_response' = <<>>

\* lines 284 and 120: the scan raises (see ScanDir) before the completion
\* call is made; nothing is yielded and the session state is left alone
RunAborted ==
    /\ Begin
    /\ generate_directory_markdown(tree).raised
    /\ yielded' = <<>> /\ outcome' = "aborted"
    /\ UNCHANGED <<docker_files, message_count, pc, xvars, gvars, cvars>>

\* lines 151-154 and 179-180: completion() raises before any part arrives
CallRaises(e) ==
    /\ Begin
    /\ ~generate_directory_markdown(tree).raised
    /\ yielded' = <<ErrorFragment(e)>> /\ outcome' = "failed"
    /\ UNCHANGED <<docker_files, message_count, pc, xvars, gvars, cvars>>

\* lines 151-156: completion() returns the stream
CallOpens ==
    /\ Begin
    /\ ~generate_directory_markdown(tree).raised
    /\ yielded' = <<>> /\ outcome' = "running"
    /\ pc' = "streaming"
    /\ UNCHANGED <<docker_files, message_count, xvars, gvars, cvars>>

\* lines 157-161: one part of the stream
Part(part) ==
    /\ pc = "streaming" /\ nparts < MaxParts
    /\ nparts' = nparts + 1
    /\ IF Truthy(part)
       THEN /\ full_response' = full_response \o part.content
            /\ yielded' = Append(yielded, Fragment(part.content))
       ELSE UNCHANGED <<full_response, yielded>>
    /\ UNCHANGED <<docker_files, message_count, pc, calls, outcome,
                   start_files, start_count, xvars, gvars, cvars>>

\* variant: the text gathered before the failure is parsed and recorded
StreamRaisesKeepsPartial(e) ==
    /\ pc = "streaming"
    /\ yielded' = Append(yielded, ErrorFragment(e))
    /\ outcome' = "failed" /\ pc' = "idle"
    /\ IF full_response # <<>>
       THEN /\ docker_files' = Append(docker_files,
                 [timestamp |-> message_count,
                  dockerfile |-> extract_docker_files(full_response).dockerfile,
                  docker_compose |->
                      extract_docker_files(full_response).docker_compose,
                  summary |-> extract_docker_files(full_response).summary])
            /\ message_count' = message_count + 1
       ELSE UNCHANGED <<docker_files, message_count>>
    /\ UNCHANGED <<full_response, calls, nparts, start_files, start_count,
                   xvars, gvars, cvars>>

\* lines 157 and 179-180: iterating the stream raises
StreamRaises(e) ==
    /\ pc = "streaming"
    /\ yielded' = Append(yielded, ErrorFragment(e))
    /\ outcome' = "failed" /\ pc' = "idle"
    /\ UNCHANGED <<docker_files, message_count, full_response, calls, nparts,
                   start_files, start_count, xvars, gvars, cvars>>

\* lines 164-174: the entry appended for a reply
HistoryEntry(reply, count) ==
    [timestamp |-> count,
     dockerfile |-> extract_docker_files(reply).dockerfile,
     docker_compose |-> extract_docker_files(reply).docker_compose,
     summary |-> extract_docker_files(reply).summary]

\* variant: an entry is appended whether or not any text arrived
StreamEndsAlwaysAppends ==
    /\ pc = "streaming"
    /\ docker_files' = Append(docker_files,
                              HistoryEntry(full_response, message_count))
    /\ message_count' = message_count + 1
    /\ outcome' = "completed" /\ pc' = "idle"
    /\ UNCHANGED <<full_response, yielded, calls, nparts, start_files,
                   start_count, xvars, gvars, cvars>>

\* variant: the counter is not advanced after the append
StreamEndsKeepsCount ==
    /\ pc = "streaming"
    /\ IF full_response # <<>>
       THEN docker_files' = Append(docker_files,
                                   HistoryEntry(full_response, message_count))
       ELSE UNCHANGED docker_files
    /\ outcome' = "completed" /\ pc' = "idle"
    /\ UNCHANGED <<message_count, full_response, yielded, calls, nparts,
                   start_files, start_count, xvars, gvars, cvars>>

\* lines 157 and 163-177: the stream ends; main has created docker_files and
\* message_count, so the fallbacks of lines 165-166, 169 and 176 are not taken
StreamEnds ==
    /\ pc = "streaming"
    /\ IF full_response # <<>>
       THEN /\ docker_files' = Append(docker_files,
                                      HistoryEntry(full_response, message_count))
            /\ message_count' = message_count + 1
       ELSE UNCHANGED <<docker_files, message_count>>
    /\ outcome' = "completed" /\ pc' = "idle"
    /\ UNCHANGED <<full_response, yielded, calls, nparts, start_files,
                   start_count, xvars, gvars, cvars>>

NextStream ==
    \/ RunAborted
    \/ \E e \in Errors : CallRaises(e)
    \/ CallOpens
    \/ \E part \in Parts : Part(part)
    \/ \E e \in Errors : StreamRaises(e)
    \/ StreamEnds

SpecStream == InitStream /\ [][NextStream]_vars

----------------------------------------------------------------------------
(* Properties of stream_response *)

IsPrefixOf(a, b) == Len(a) <= Len(b) /\ SubSeq(b, 1, Len(a)) = a

\* C5: a call whose completion raises, before or during streaming, yields
\* exactly one error fragment, as its last fragment, and leaves docker_files
\* and message_count as they were when the call began.
C5_FailureYieldsOneError ==
    /\ [](outcome = "failed" =>
            /\ pc = "idle"
            /\ Len(yielded) >= 1
            /\ yielded[Len(yielded)].error
            /\ StartsWith(yielded[Len(yielded)].text, ErrorPrefix)
            /\ \A i \in 1..(Len(yielded) - 1) : ~yielded[i].error
            /\ docker_files = start_files
            /\ message_count = start_count)
    /\ [][(outcome = "failed" /\ calls' = calls) =>
            (yielded' = yielded /\ docker_files' = docker_files)]_vars

C5_Witness ==
    /\ outcome = "failed"
    /\ Len(yielded) >= 2 /\ full_response # <<>>
    /\ yielded[Len(yielded)].error
    /\ Len(start_files) >= 1 /\ docker_files = start_files

\* C6 as stated: every stream that ends normally appends exactly one entry.
C6_Original ==
    outcome = "completed" => Len(docker_files) = Len(start_files) + 1

\* C6 amended: a stream that ends normally after at least one non-empty
\* fragment appends exactly one entry, and one that delivered no non-empty
\* fragment appends none; an append happens only in the step that ends the
\* stream, after every fragment of the call has been yielded.
C6_OneAppendAfterStream ==
    /\ [](outcome = "completed" =>
            IF full_response # <<>>
            THEN /\ Len(docker_files) = Len(start_files) + 1
                 /\ IsPrefixOf(start_files, docker_files)
            ELSE docker_files = start_files)
    /\ [][docker_files' # docker_files =>
            /\ pc = "streaming" /\ pc' = "idle"
            /\ outcome' = "completed"
            /\ yielded' = yielded /\ yielded # <<>>]_vars

C6_Witness ==
    /\ outcome = "completed"
    /\ full_response # <<>> /\ Len(yielded) >= 2
    /\ Len(start_files) >= 1
    /\ Len(docker_files) = Len(start_files) + 1

\* C10: the history is append-only, its sequence numbers strictly increase
\* in append order, and its length equals message_count.
C10_AppendOnly ==
    /\ [](/\ Len(docker_files) = message_count
          /\ \A i, j \in 1..Len(docker_files) :
                i < j => docker_files[i].timestamp < docker_files[j].timestamp)
    /\ [][IsPrefixOf(docker_files, docker_files')]_vars

C10_Witness ==
    /\ Len(docker_files) = 2 /\ message_count = 2
    /\ calls = 3 /\ outcome = "failed"
    /\ docker_files[1].timestamp < docker_files[2].timestamp

====
